---- MODULE Spec2Model ----
(***************************************************************************)
(* A model of the leveldb access layer (src/src/database/*.rs): the        *)
(* Database handle (open, put, delete, get, drop), snapshots, write        *)
(* batches, the iterator cursor and the comparator bridge.                 *)
(*                                                                         *)
(* The storage engine is reached through the leveldb C API.  Every         *)
(* operator named leveldb_* models one such call as the engine documents   *)
(* it (include/leveldb/c.h, db.h); the wrapper's own functions keep their  *)
(* Rust names.  A key is a one-byte slice, written as its byte 1..NKeys;   *)
(* a value likewise.  NULL is the null pointer: a missing value, an unset  *)
(* error out-parameter, an unset snapshot in native read options.          *)
(***************************************************************************)
EXTENDS Integers, Sequences, FiniteSets, TLC

NKeys == 2
NVals == 2

MaxBatch == 2
MaxOpens == 4

NULL == 0

Keys == 1..NKeys
Values == 1..NVals

\* What the engine may leave in an error out-parameter: NULL, or a non-null
\* pointer to a message (1: the only message the model distinguishes).
EngineErrors == {NULL, 1}

\* A store: the contents of one engine instance, NULL where a key is absent.
Stores == [Keys -> Values \cup {NULL}]

EmptyStore == [k \in Keys |-> NULL]

VARIABLES
  store,     \* contents of the database at the path (the engine instance's)
  snap,      \* the Snapshot the client holds: [held, view]
  batch,     \* the Writebatch the client holds: its recorded operations
  ret,       \* the last call and what it returned
  lastw,     \* per key, the most recent successful write (history variable)
  db,        \* the Database value the client holds: None or Some(Database)
  disk,      \* the database at the path: [exists, comparator, created]: the
             \* comparator name it records and (history) was created with
  native,    \* how many native handles of each kind are live
  calls,     \* the engine calls of the last open or drop, in order
  opens,     \* how many times open, destroy and repair were called
  destroys,  \* how often the destroy callback of db's comparator has run
  it,        \* the DatabaseIterator the client holds: None or Some(iterator)
  pass,      \* the forward pass of it: [items, clean, done] (history variable)
  aborted,   \* the process was aborted by the engine
  threads,   \* per thread sharing the Database: the call it is in
  frames     \* per stack frame: the error and result the engine wrote

kvVars == <<store, snap, batch, lastw>>
lifeVars == <<db, disk, native, calls, opens, destroys>>
iterVars == <<it, pass, aborted>>
threadVars == <<threads, frames>>

vars == <<kvVars, ret, lifeVars, iterVars, threadVars>>

----------------------------------------------------------------------------
(* Rust values *)

None == <<>>
Some(x) == <<x>>
Unit == <<>>

Ok(x) == [ok |-> TRUE, val |-> x, err |-> None]
Err(e) == [ok |-> FALSE, val |-> None, err |-> Some(e)]

\* Error::new_from_i8(error): the owned Error holding a copy of the engine's
\* message.
Error_new_from_i8(error) == [message |-> error]

\* Bytes::from_raw(ptr, length): None for the null pointer, else the buffer.
Bytes_from_raw(ptr) == IF ptr = NULL THEN None ELSE Some(ptr)

WriteOptionsSet == [sync : BOOLEAN]
\* ReadOptions as a caller builds them: no snapshot bound yet.
ReadOptionsSet == [verify_checksums : BOOLEAN, fill_cache : BOOLEAN,
                   snapshot : {NULL}]

\* The address of the Snapshot the client holds (Some(self) in ReadOptions).
SnapshotRef == 1

\* One recorded operation of a write batch.
PutOp(key, value) == [tag |-> "put", key |-> key, value |-> value]
DeleteOp(key) == [tag |-> "delete", key |-> key, value |-> NULL]

----------------------------------------------------------------------------
(* Options translation (options.rs) *)

\* c_writeoptions: leveldb_writeoptions_create, then set_sync.
c_writeoptions(options) == [sync |-> options.sync]

\* c_readoptions: leveldb_readoptions_create leaves the native snapshot field
\* NULL; the function sets verify_checksums and fill_cache and nothing else.
c_readoptions(options) ==
  [verify_checksums |-> options.verify_checksums,
   fill_cache |-> options.fill_cache,
   snapshot |-> NULL]

----------------------------------------------------------------------------
(* The engine's calls *)

\* leveldb_put: on success the key maps to the value; on failure the engine
\* sets the error and the contents stay as they were.
leveldb_put(s, c_wo, key, value, error) ==
  IF error = NULL THEN [s EXCEPT ![key] = value] ELSE s

leveldb_delete(s, c_wo, key, error) ==
  IF error = NULL THEN [s EXCEPT ![key] = NULL] ELSE s

\* leveldb_get: reads the snapshot named by the native read options, the
\* current contents when it is NULL; NULL result for an absent key or an error.
leveldb_get(s, sn, c_ro, key, error) ==
  IF error # NULL THEN NULL
  ELSE IF c_ro.snapshot = NULL THEN s[key] ELSE sn.view[key]

\* leveldb_create_snapshot: the contents as they are now.
leveldb_create_snapshot(s) == [held |-> TRUE, view |-> s]

NoSnapshot == [held |-> FALSE, view |-> EmptyStore]

\* leveldb_release_snapshot
leveldb_release_snapshot(sn) == NoSnapshot

\* leveldb_writebatch_create / clear / put / delete: the batch is the list of
\* its records, in the order they were added.
leveldb_writebatch_create == <<>>
leveldb_writebatch_clear(b) == <<>>
leveldb_writebatch_put(b, key, value) == Append(b, PutOp(key, value))
leveldb_writebatch_delete(b, key) == Append(b, DeleteOp(key))

\* The last record of b that names key (0: none).  The engine gives the
\* records of a batch consecutive sequence numbers, and a read returns the
\* entry with the highest one.
LastOpOn(b, key) ==
  LET at == {i \in 1..Len(b) : b[i].key = key}
  IN IF at = {} THEN 0 ELSE CHOOSE i \in at : \A j \in at : j <= i

\* leveldb_write: the whole batch in one log record, or, on failure, nothing.
leveldb_write(s, c_wo, b, error) ==
  IF error # NULL THEN s
  ELSE [k \in Keys |->
          LET i == LastOpOn(b, k)
          IN IF i = 0 THEN s[k]
             ELSE IF b[i].tag = "put" THEN b[i].value ELSE NULL]

----------------------------------------------------------------------------
(* Database (mod.rs) *)

put_KeepsOld(s, options, key, value, error) ==
  [store |-> IF s[key] = NULL
             THEN leveldb_put(s, c_writeoptions(options), key, value, error)
             ELSE s,
   res |-> IF error = NULL THEN Ok(Unit) ELSE Err(Error_new_from_i8(error))]

\* Database::put
put(s, options, key, value, error) ==
  [store |-> leveldb_put(s, c_writeoptions(options), key, value, error),
   res |-> IF error = NULL THEN Ok(Unit) ELSE Err(Error_new_from_i8(error))]

\* Database::delete
delete(s, options, key, error) ==
  [store |-> leveldb_delete(s, c_writeoptions(options), key, error),
   res |-> IF error = NULL THEN Ok(Unit) ELSE Err(Error_new_from_i8(error))]

get_bytes_AbsentIsError(s, sn, options, key, error) ==
  LET result == leveldb_get(s, sn, c_readoptions(options), key, error)
  IN IF error = NULL /\ result # NULL THEN Ok(Bytes_from_raw(result))
     ELSE Err(Error_new_from_i8(CHOOSE e \in EngineErrors : e # NULL))

get_bytes_IgnoresError(s, sn, options, key, error) ==
  Ok(Bytes_from_raw(leveldb_get(s, sn, c_readoptions(options), key, error)))

\* Database::get_bytes
get_bytes(s, sn, options, key, error) ==
  LET result == leveldb_get(s, sn, c_readoptions(options), key, error)
  IN IF error = NULL THEN Ok(Bytes_from_raw(result))
     ELSE Err(Error_new_from_i8(error))

\* Database::get: get_bytes with the buffer copied into a Vec.
get(s, sn, options, key, error) == get_bytes(s, sn, options, key, error)

----------------------------------------------------------------------------
(* Snapshots (snapshots.rs) *)

\* Snapshots::snapshot for Database
snapshot(s) == leveldb_create_snapshot(s)

\* Snapshot::get: binds the snapshot into the ReadOptions, then Database::get.
Snapshot_get(s, sn, options, key, error) ==
  get(s, sn, [options EXCEPT !.snapshot = SnapshotRef], key, error)

----------------------------------------------------------------------------
(* Write batches (batch.rs) *)

\* Writebatch::new, clear, put, delete
Writebatch_new == leveldb_writebatch_create
Writebatch_clear_Noop(b) == b

Writebatch_clear(b) == leveldb_writebatch_clear(b)
Writebatch_put(b, key, value) == leveldb_writebatch_put(b, key, value)
Writebatch_delete(b, key) == leveldb_writebatch_delete(b, key)

\* A WritebatchIterator that records the calls made to it, in order.
NewVisitor == <<>>
WritebatchIterator_put(v, key, value) ==
  Append(v, [call |-> "put", key |-> key, value |-> value])
WritebatchIterator_deleted(v, key) ==
  Append(v, [call |-> "deleted", key |-> key])

put_callback_Drops(state, key, val) == state

\* extern "C" fn put_callback, deleted_callback: the visitor behind the state
\* pointer is called with the slices the engine passes.
put_callback(state, key, val) == WritebatchIterator_put(state, key, val)
deleted_callback(state, key) == WritebatchIterator_deleted(state, key)

\* leveldb_writebatch_iterate: calls the put or the deleted callback for
\* each record of the batch, in the order the records were added.
RECURSIVE leveldb_writebatch_iterate(_, _)
leveldb_writebatch_iterate(b, state) ==
  IF b = <<>> THEN state
  ELSE LET o == Head(b)
       IN leveldb_writebatch_iterate(
            Tail(b),
            IF o.tag = "put" THEN put_callback(state, o.key, o.value)
            ELSE deleted_callback(state, o.key))

\* Writebatch::iterate: the Box is turned into a raw pointer for the call
\* and back into the Box that is returned.
iterate(b, iterator) ==
  [batch |-> b, res |-> leveldb_writebatch_iterate(b, iterator)]

write_ReportsOk(s, options, b, error) ==
  [store |-> leveldb_write(s, c_writeoptions(options), b, error),
   batch |-> b,
   res |-> Ok(Unit)]

write_SkipsCall(s, options, b, error) ==
  [store |-> s,
   batch |-> b,
   res |-> IF error = NULL THEN Ok(Unit) ELSE Err(Error_new_from_i8(error))]

write_ConsumesBatch(s, options, b, error) ==
  [store |-> leveldb_write(s, c_writeoptions(options), b, error),
   batch |-> leveldb_writebatch_clear(b),
   res |-> IF error = NULL THEN Ok(Unit) ELSE Err(Error_new_from_i8(error))]

\* Batch::write for Database.  The batch is borrowed (&Writebatch) and the
\* engine reads its records.
write(s, options, b, error) ==
  [store |-> leveldb_write(s, c_writeoptions(options), b, error),
   batch |-> b,
   res |-> IF error = NULL THEN Ok(Unit) ELSE Err(Error_new_from_i8(error))]

----------------------------------------------------------------------------
(* Comparator bridge (comparator.rs) *)

\* The comparators a caller supplies: OrdComparator, and one that reverses it.
UserComparators == {"ord_comparator", "desc"}

\* Comparator::name
Comparator_name(c) == c

\* Comparator::compare.  OrdComparator: a.cmp(b).
Comparator_compare(c, a, b) ==
  IF c = "ord_comparator"
  THEN (IF a < b THEN "Less" ELSE IF a = b THEN "Equal" ELSE "Greater")
  ELSE (IF b < a THEN "Less" ELSE IF a = b THEN "Equal" ELSE "Greater")

compare_Swapped(state, a, b) ==
  LET o == Comparator_compare(state, a, b)
  IN IF o = "Less" THEN 1 ELSE IF o = "Equal" THEN 0 ELSE -1

\* extern "C" fn compare: the callback the engine calls.
compare(state, a, b) ==
  LET o == Comparator_compare(state, a, b)
  IN IF o = "Less" THEN -1 ELSE IF o = "Equal" THEN 0 ELSE 1

\* extern "C" fn name
name(state) == Comparator_name(state)

\* The engine's built-in comparator, used when the options name none.
BytewiseName == "leveldb.BytewiseComparator"
bytewise_compare(a, b) == IF a < b THEN -1 ELSE IF a = b THEN 0 ELSE 1

\* How an engine instance orders two keys; c: Option of the user comparator.
engine_compare(c, a, b) ==
  IF c = None THEN bytewise_compare(a, b) ELSE compare(c[1], a, b)

engine_name(c) == IF c = None THEN BytewiseName ELSE name(c[1])

----------------------------------------------------------------------------
(* Native handles: what the calls of an operation create and free *)

Kinds == {"options", "comparator", "box", "db", "snapshot", "iterator"}

Call(fn, made, freed) == [fn |-> fn, made |-> made, freed |-> freed]

\* How many calls of a trace create (free) a handle of the kind.
Made(cs, kind) == Cardinality({i \in 1..Len(cs) : cs[i].made = kind})
Freed(cs, kind) == Cardinality({i \in 1..Len(cs) : cs[i].freed = kind})

ApplyCalls(n, cs) == [k \in Kinds |-> n[k] + Made(cs, k) - Freed(cs, k)]

\* The positions of the calls of fn in a trace.
CallsOf(cs, fn) == {i \in 1..Len(cs) : cs[i].fn = fn}

----------------------------------------------------------------------------
(* Opening and dropping a Database (mod.rs) *)

\* The fields of Options that decide whether an open succeeds.
OptionsSet == [create_if_missing : BOOLEAN, error_if_exists : BOOLEAN]

\* c_options: leveldb_options_create, the setters, and set_comparator when a
\* comparator is given.
c_options(options, comparator) ==
  [create_if_missing |-> options.create_if_missing,
   error_if_exists |-> options.error_if_exists,
   comparator |-> comparator]

SomeError == CHOOSE e \in EngineErrors : e # NULL

\* leveldb_open: fails on an I/O error, on a missing database that may not
\* be created, on an existing one with error_if_exists, and on an existing
\* one recorded under another comparator name.
leveldb_open(c_opts, dsk, ioerror) ==
  LET error ==
        IF ioerror # NULL THEN ioerror
        ELSE IF ~dsk.exists /\ ~c_opts.create_if_missing THEN SomeError
        ELSE IF dsk.exists /\ c_opts.error_if_exists THEN SomeError
        ELSE IF dsk.exists /\ dsk.comparator # engine_name(c_opts.comparator)
             THEN SomeError
        ELSE NULL
  IN [error |-> error,
      disk |-> IF error = NULL /\ ~dsk.exists
               THEN [exists |-> TRUE,
                     comparator |-> engine_name(c_opts.comparator),
                     created |-> engine_name(c_opts.comparator)]
               ELSE dsk]

\* create_comparator: the boxed comparator handed to leveldb_comparator_create.
create_comparator(x) ==
  <<Call("leveldb_comparator_create", "comparator", "")>>

\* Database::new
Database_new(database, options, comparator) ==
  [database |-> database, comparator |-> comparator, options |-> options]

\* Database::open
open(options, dsk, ioerror) ==
  LET r == leveldb_open(c_options(options, None), dsk, ioerror)
  IN [calls |-> <<Call("leveldb_options_create", "options", ""),
                  Call("leveldb_open", IF r.error = NULL THEN "db" ELSE "", ""),
                  Call("leveldb_options_destroy", "", "options")>>,
      disk |-> r.disk,
      res |-> IF r.error = NULL
              THEN Ok(Database_new("db", options, None))
              ELSE Err(Error_new_from_i8(r.error))]

\* Database::open_with_comparator
open_with_comparator(options, comparator, dsk, ioerror) ==
  LET r == leveldb_open(c_options(options, Some(comparator)), dsk, ioerror)
  IN [calls |-> <<Call("Box::new", "box", "")>>
                \o create_comparator(comparator)
                \o <<Call("leveldb_options_create", "options", ""),
                     Call("leveldb_open",
                          IF r.error = NULL THEN "db" ELSE "", ""),
                     Call("leveldb_options_destroy", "", "options")>>,
      disk |-> r.disk,
      res |-> IF r.error = NULL
              THEN Ok(Database_new("db", options, Some(comparator)))
              ELSE Err(Error_new_from_i8(r.error))]

\* Nothing at the path.
NoDatabase ==
  [exists |-> FALSE, comparator |-> BytewiseName, created |-> BytewiseName]

\* leveldb_destroy_db: removes the database at the path; fails on an I/O
\* error and while an engine instance holds the lock of the database.  A
\* missing database is not an error.
leveldb_destroy_db(c_opts, dsk, locked, ioerror) ==
  LET error == IF ioerror # NULL THEN ioerror
               ELSE IF locked THEN SomeError
               ELSE NULL
  IN [error |-> error,
      disk |-> IF error = NULL
               THEN NoDatabase
               ELSE dsk]

\* leveldb_repair_db: rebuilds the descriptor of the database at the path
\* from the files found, recording the name of the comparator of the options
\* it is given; fails on an I/O error and when there is nothing at the path.
\* It takes no lock: the database must be closed.
leveldb_repair_db(c_opts, dsk, ioerror) ==
  LET error == IF ioerror # NULL THEN ioerror
               ELSE IF ~dsk.exists THEN SomeError
               ELSE NULL
  IN [error |-> error,
      disk |-> IF error = NULL
               THEN [dsk EXCEPT !.comparator = engine_name(c_opts.comparator)]
               ELSE dsk]

destroy_ReportsOk(options, dsk, locked, ioerror) ==
  LET r == leveldb_destroy_db(c_options(options, None), dsk, locked, ioerror)
  IN [calls |-> <<Call("leveldb_options_create", "options", ""),
                  Call("leveldb_destroy_db", "", "")>>,
      disk |-> r.disk,
      res |-> Ok(Unit)]

\* management::destroy
destroy(options, dsk, locked, ioerror) ==
  LET r == leveldb_destroy_db(c_options(options, None), dsk, locked, ioerror)
  IN [calls |-> <<Call("leveldb_options_create", "options", ""),
                  Call("leveldb_destroy_db", "", "")>>,
      disk |-> r.disk,
      res |-> IF r.error = NULL THEN Ok(Unit)
              ELSE Err(Error_new_from_i8(r.error))]

\* management::repair
repair(options, dsk, ioerror) ==
  LET r == leveldb_repair_db(c_options(options, None), dsk, ioerror)
  IN [calls |-> <<Call("leveldb_options_create", "options", ""),
                  Call("leveldb_repair_db", "", "")>>,
      disk |-> r.disk,
      res |-> IF r.error = NULL THEN Ok(Unit)
              ELSE Err(Error_new_from_i8(r.error))]

drop_RawDB_Twice ==
  <<Call("leveldb_close", "", "db"), Call("leveldb_close", "", "db")>>

\* Drop for RawDB
drop_RawDB == <<Call("leveldb_close", "", "db")>>

\* Drop for RawComparator: leveldb_comparator_destroy deletes the native
\* comparator, which calls back destructor, which drops the Box.
drop_RawComparator ==
  <<Call("leveldb_comparator_destroy", "", "comparator"),
    Call("destructor", "", "box")>>

drop_Database_ComparatorFirst(d) ==
  (IF d.comparator # None THEN drop_RawComparator ELSE <<>>) \o drop_RawDB

\* Dropping a Database drops its fields in the order they are declared:
\* database, comparator, options.
drop_Database(d) ==
  drop_RawDB \o (IF d.comparator # None THEN drop_RawComparator ELSE <<>>)

\* Snapshots::snapshot and Drop for RawSnapshot: the engine calls.
new_RawSnapshot == <<Call("leveldb_create_snapshot", "snapshot", "")>>
drop_RawSnapshot == <<Call("leveldb_release_snapshot", "", "snapshot")>>

\* DatabaseIterator::new and Drop for RawIterator: the engine calls.
new_RawIterator == <<Call("leveldb_create_iterator", "iterator", "")>>
drop_RawIterator == <<Call("leveldb_iter_destroy", "", "iterator")>>

Borrowed_Never(sn, i) == FALSE

\* Snapshot<'a> holds &'a Database and DatabaseIterator<'a> holds
\* PhantomData<&'a Database>: while either is alive the Database is borrowed.
Borrowed(sn, i) == sn.held \/ i # None

----------------------------------------------------------------------------
(* The engine's iterator *)

\* The keys a view holds.
Present(view) == {k \in Keys : view[k] # NULL}

\* The first and the last key of a set in the order of comparator c (NULL
\* for the empty set).
FirstOf(c, S) ==
  IF S = {} THEN NULL
  ELSE CHOOSE k \in S : \A j \in S : engine_compare(c, k, j) <= 0

LastOf(c, S) ==
  IF S = {} THEN NULL
  ELSE CHOOSE k \in S : \A j \in S : engine_compare(c, k, j) >= 0

\* leveldb_create_iterator: an unpositioned cursor over the contents as they
\* are now, or over the snapshot the native read options name.
leveldb_create_iterator(s, sn, c_ro, c) ==
  [pos |-> NULL,
   view |-> IF c_ro.snapshot = NULL THEN s ELSE sn.view,
   cmp |-> c]

leveldb_iter_valid(raw) == IF raw.pos # NULL THEN 1 ELSE 0

leveldb_iter_seek_to_first(raw) ==
  [raw EXCEPT !.pos = FirstOf(raw.cmp, Present(raw.view))]

leveldb_iter_seek_to_last(raw) ==
  [raw EXCEPT !.pos = LastOf(raw.cmp, Present(raw.view))]

\* leveldb_iter_seek: the first key at or after the target.
leveldb_iter_seek(raw, target) ==
  [raw EXCEPT !.pos =
     FirstOf(raw.cmp, {k \in Present(raw.view) :
                         engine_compare(raw.cmp, k, target) >= 0})]

\* What a call that requires a valid iterator may do on an invalid one: the
\* engine asserts Valid(), so a build with assertions aborts; one without
\* reads whatever the iterator's buffers hold.
UBSet == [abort : BOOLEAN, key : Keys \cup {NULL}, value : Values \cup {NULL}]

leveldb_iter_next_Stays(raw, ub) == [raw |-> raw, abort |-> FALSE]

\* leveldb_iter_next: REQUIRES Valid().
leveldb_iter_next(raw, ub) ==
  IF raw.pos = NULL THEN [raw |-> raw, abort |-> ub.abort]
  ELSE [raw |-> [raw EXCEPT !.pos =
                   FirstOf(raw.cmp, {k \in Present(raw.view) :
                                       engine_compare(raw.cmp, k, raw.pos) > 0})],
        abort |-> FALSE]

\* leveldb_iter_key, leveldb_iter_value: REQUIRE Valid().
leveldb_iter_key(raw, ub) ==
  IF raw.pos = NULL THEN [data |-> ub.key, abort |-> ub.abort]
  ELSE [data |-> raw.pos, abort |-> FALSE]

leveldb_iter_value(raw, ub) ==
  IF raw.pos = NULL THEN [data |-> ub.value, abort |-> ub.abort]
  ELSE [data |-> raw.view[raw.pos], abort |-> FALSE]

----------------------------------------------------------------------------
(* The iterator cursor (iterator.rs) *)

\* DatabaseIterator::new
DatabaseIterator_new(s, sn, options, c) ==
  [start |-> TRUE,
   iter |-> leveldb_iter_seek_to_first(
              leveldb_create_iterator(s, sn, c_readoptions(options), c)),
   from |-> None,
   to |-> None]

started_Noop(i) == i

\* impl LevelDBIterator for DatabaseIterator
start(i) == i.start
started(i) == [i EXCEPT !.start = FALSE]
from(i, k) == [i EXCEPT !.from = Some(k)]
to(i, k) == [i EXCEPT !.to = Some(k)]
from_key(i) == i.from
to_key(i) == i.to

\* LevelDBIterator::valid
valid(i) == leveldb_iter_valid(i.iter) # 0

\* LevelDBIterator::seek, seek_to_first, seek_to_last
seek(i, k) == [i EXCEPT !.iter = leveldb_iter_seek(i.iter, k)]

seek_to_first(i) == [i EXCEPT !.iter = leveldb_iter_seek_to_first(i.iter)]

seek_to_last(i) ==
  IF to_key(i) # None THEN seek(i, to_key(i)[1])
  ELSE [i EXCEPT !.iter = leveldb_iter_seek_to_last(i.iter)]

advance_AlwaysSteps(i, ub) ==
  LET n == leveldb_iter_next(i.iter, ub)
      i1 == started([i EXCEPT !.iter = n.raw])
  IN [it |-> i1, res |-> valid(i1), abort |-> n.abort]

advance_IgnoresFrom(i, ub) ==
  LET n == leveldb_iter_next(i.iter, ub)
      i1 == IF ~start(i) THEN [i EXCEPT !.iter = n.raw] ELSE started(i)
  IN [it |-> i1, res |-> valid(i1), abort |-> ~start(i) /\ n.abort]

\* LevelDBIterator::advance
advance(i, ub) ==
  LET n == leveldb_iter_next(i.iter, ub)
      i1 == IF ~start(i) THEN [i EXCEPT !.iter = n.raw]
            ELSE started(IF from_key(i) # None
                         THEN seek(i, from_key(i)[1])
                         ELSE i)
  IN [it |-> i1, res |-> valid(i1), abort |-> ~start(i) /\ n.abort]

\* LevelDBIterator::key, value: the bytes the engine returns, copied.
cursor_key(i, ub) == leveldb_iter_key(i.iter, ub)
cursor_value(i, ub) == leveldb_iter_value(i.iter, ub)

\* Iterator::next for DatabaseIterator
next(i, ub) ==
  LET a == advance(i, ub)
  IN [it |-> a.it,
      res |-> IF a.res
              THEN Some(<<cursor_key(a.it, ub).data, cursor_value(a.it, ub).data>>)
              ELSE None,
      abort |-> a.abort]

\* DatabaseIterator::last
last(i, ub) ==
  LET j == seek_to_last(i)
  IN [res |-> Some(<<cursor_key(j, ub).data, cursor_value(j, ub).data>>),
      abort |-> cursor_key(j, ub).abort,
      valid |-> valid(j)]

----------------------------------------------------------------------------
(* History variable: the most recent successful write per key *)

Never == <<"never">>
Deleted == <<"delete">>
Written(v) == <<"put", v>>

RecordWrite(lw, key, w, res) == IF res.ok THEN [lw EXCEPT ![key] = w] ELSE lw

----------------------------------------------------------------------------
(* Actions on an open Database *)

Put(key, value) ==
  /\ db # None
  /\ \E options \in WriteOptionsSet, error \in EngineErrors :
    LET r == put(store, options, key, value, error)
    IN /\ store' = r.store
       /\ ret' = [op |-> "put", key |-> key, res |-> r.res]
       /\ lastw' = RecordWrite(lastw, key, Written(value), r.res)
       /\ UNCHANGED <<threadVars, lifeVars, iterVars, snap, batch>>

Delete(key) ==
  /\ db # None
  /\ \E options \in WriteOptionsSet, error \in EngineErrors :
    LET r == delete(store, options, key, error)
    IN /\ store' = r.store
       /\ ret' = [op |-> "delete", key |-> key, res |-> r.res]
       /\ lastw' = RecordWrite(lastw, key, Deleted, r.res)
       /\ UNCHANGED <<threadVars, lifeVars, iterVars, snap, batch>>

Get(key) ==
  /\ db # None
  /\ \E options \in ReadOptionsSet, error \in EngineErrors :
       ret' = [op |-> "get", key |-> key,
               res |-> get(store, snap, options, key, error)]
  /\ UNCHANGED <<threadVars, lifeVars, iterVars, store, snap, batch, lastw>>

TakeSnapshot ==
  /\ db # None /\ ~snap.held
  /\ snap' = snapshot(store)
  /\ native' = ApplyCalls(native, new_RawSnapshot)
  /\ ret' = [op |-> "snapshot", key |-> NULL, res |-> Ok(Unit)]
  /\ UNCHANGED <<threadVars, db, disk, calls, opens, destroys, iterVars, store, batch, lastw>>

SnapshotGet(key) ==
  /\ snap.held
  /\ \E options \in ReadOptionsSet, error \in EngineErrors :
       ret' = [op |-> "snapshot_get", key |-> key,
               res |-> Snapshot_get(store, snap, options, key, error)]
  /\ UNCHANGED <<threadVars, lifeVars, iterVars, store, snap, batch, lastw>>

\* The Snapshot goes out of scope: Drop for RawSnapshot.
DropSnapshot ==
  /\ snap.held
  /\ snap' = leveldb_release_snapshot(snap)
  /\ native' = ApplyCalls(native, drop_RawSnapshot)
  /\ ret' = [op |-> "drop_snapshot", key |-> NULL, res |-> Ok(Unit)]
  /\ UNCHANGED <<threadVars, db, disk, calls, opens, destroys, iterVars, store, batch, lastw>>

BatchPut(key, value) ==
  /\ Len(batch) < MaxBatch
  /\ batch' = Writebatch_put(batch, key, value)
  /\ ret' = [op |-> "batch_put", key |-> NULL, res |-> Ok(Unit)]
  /\ UNCHANGED <<threadVars, lifeVars, iterVars, store, snap, lastw>>

BatchDelete(key) ==
  /\ Len(batch) < MaxBatch
  /\ batch' = Writebatch_delete(batch, key)
  /\ ret' = [op |-> "batch_delete", key |-> NULL, res |-> Ok(Unit)]
  /\ UNCHANGED <<threadVars, lifeVars, iterVars, store, snap, lastw>>

BatchClear ==
  /\ batch' = Writebatch_clear(batch)
  /\ ret' = [op |-> "batch_clear", key |-> NULL, res |-> Ok(Unit),
             cleared |-> Len(batch)]
  /\ UNCHANGED <<threadVars, lifeVars, iterVars, store, snap, lastw>>

\* Writebatch::iterate, with a new visitor or with the one the last iterate
\* returned.
BatchIterate ==
  \E iterator \in {NewVisitor}
        \cup (IF ret.op = "iterate" /\ Len(ret.res) <= MaxBatch
              THEN {ret.res} ELSE {}) :
    LET r == iterate(batch, iterator)
    IN /\ batch' = r.batch
       /\ ret' = [op |-> "iterate", key |-> NULL, arg |-> iterator,
                  res |-> r.res]
       /\ UNCHANGED <<threadVars, lifeVars, iterVars, store, snap, lastw>>

Write ==
  /\ db # None
  /\ \E options \in WriteOptionsSet, error \in EngineErrors :
    LET r == write(store, options, batch, error)
    IN /\ store' = r.store
       /\ batch' = r.batch
       /\ ret' = [op |-> "write", key |-> NULL, res |-> r.res]
       /\ UNCHANGED <<threadVars, lifeVars, iterVars, snap, lastw>>

----------------------------------------------------------------------------
(* Opening and dropping the Database *)

Open(options) ==
  /\ db = None /\ opens < MaxOpens
  /\ \E ioerror \in EngineErrors :
       LET r == open(options, disk, ioerror)
       IN /\ db' = IF r.res.ok THEN Some(r.res.val) ELSE None
          /\ disk' = r.disk
          /\ calls' = r.calls
          /\ native' = ApplyCalls(native, r.calls)
          /\ destroys' = IF r.res.ok THEN 0 ELSE destroys
          /\ ret' = [op |-> "open", key |-> NULL, res |-> r.res]
  /\ opens' = opens + 1
  /\ UNCHANGED <<threadVars, kvVars, iterVars>>

OpenWithComparator(options, comparator) ==
  /\ db = None /\ opens < MaxOpens
  /\ \E ioerror \in EngineErrors :
       LET r == open_with_comparator(options, comparator, disk, ioerror)
       IN /\ db' = IF r.res.ok THEN Some(r.res.val) ELSE None
          /\ disk' = r.disk
          /\ calls' = r.calls
          /\ native' = ApplyCalls(native, r.calls)
          /\ destroys' = IF r.res.ok THEN 0 ELSE destroys
          /\ ret' = [op |-> "open_with_comparator", key |-> NULL, res |-> r.res]
  /\ opens' = opens + 1
  /\ UNCHANGED <<threadVars, kvVars, iterVars>>

\* The Database value goes out of scope.  The borrow checker allows it only
\* when no Snapshot or DatabaseIterator borrowed from it is alive.
DropDatabase ==
  /\ db # None /\ ~Borrowed(snap, it)
  /\ LET cs == drop_Database(db[1])
     IN /\ calls' = cs
        /\ native' = ApplyCalls(native, cs)
        /\ destroys' = destroys + Cardinality(CallsOf(cs, "destructor"))
  /\ db' = None
  /\ ret' = [op |-> "drop", key |-> NULL, res |-> Ok(Unit)]
  /\ UNCHANGED <<threadVars, kvVars, iterVars, disk, opens>>

\* management::destroy.  Nothing keeps a caller from naming the path of a
\* database it holds open; the engine then finds the database locked.
Destroy(options) ==
  /\ opens < MaxOpens
  /\ \E ioerror \in EngineErrors :
       LET r == destroy(options, disk, db # None, ioerror)
       IN /\ disk' = r.disk
          /\ calls' = r.calls
          /\ native' = ApplyCalls(native, r.calls)
          /\ store' = IF r.res.ok THEN EmptyStore ELSE store
          /\ lastw' = IF r.res.ok THEN [k \in Keys |-> Never] ELSE lastw
          /\ ret' = [op |-> "destroy", key |-> NULL, res |-> r.res]
  /\ opens' = opens + 1
  /\ UNCHANGED <<threadVars, db, destroys, snap, batch, iterVars>>

\* management::repair, called as documented: while the database is closed.
Repair(options) ==
  /\ db = None /\ opens < MaxOpens
  /\ \E ioerror \in EngineErrors :
       LET r == repair(options, disk, ioerror)
       IN /\ disk' = r.disk
          /\ calls' = r.calls
          /\ native' = ApplyCalls(native, r.calls)
          /\ ret' = [op |-> "repair", key |-> NULL, res |-> r.res]
  /\ opens' = opens + 1
  /\ UNCHANGED <<threadVars, db, destroys, kvVars, iterVars>>

----------------------------------------------------------------------------
(* Actions on the iterator *)

NewPass == [items |-> <<>>, clean |-> TRUE, done |-> FALSE]
NoPass == [items |-> <<>>, clean |-> FALSE, done |-> FALSE]

\* The outcomes to draw for a call on cursor i: those of undefined
\* behaviour when the call finds i invalid, a single one otherwise.
NoUB == [abort |-> FALSE, key |-> NULL, value |-> NULL]
Outcomes(undefined, S) == IF undefined THEN S ELSE {NoUB}

\* Undefined behaviour that can only abort.
MayAbort == {u \in UBSet : u.key = NULL /\ u.value = NULL}

\* Database::iter
Iter ==
  /\ it = None /\ db # None /\ ~aborted
  /\ \E options \in ReadOptionsSet :
       it' = Some(DatabaseIterator_new(store, snap, options, db[1].comparator))
  /\ native' = ApplyCalls(native, new_RawIterator)
  /\ pass' = NewPass
  /\ ret' = [op |-> "iter", key |-> NULL, res |-> Unit]
  /\ UNCHANGED <<threadVars, kvVars, db, disk, calls, opens, destroys, aborted>>

\* from and to configure the pass when called before the first advance.
From(k) ==
  /\ it # None /\ ~aborted
  /\ it' = Some(from(it[1], k))
  /\ pass' = IF start(it[1]) THEN pass ELSE NoPass
  /\ ret' = [op |-> "from", key |-> k, res |-> Unit]
  /\ UNCHANGED <<threadVars, kvVars, lifeVars, aborted>>

To(k) ==
  /\ it # None /\ ~aborted
  /\ it' = Some(to(it[1], k))
  /\ pass' = IF start(it[1]) THEN pass ELSE NoPass
  /\ ret' = [op |-> "to", key |-> k, res |-> Unit]
  /\ UNCHANGED <<threadVars, kvVars, lifeVars, aborted>>

IterNext ==
  /\ it # None /\ ~aborted
  /\ \E ub \in Outcomes(~start(it[1]) /\ ~valid(it[1]), MayAbort) :
       LET r == next(it[1], ub)
       IN /\ it' = Some(r.it)
          /\ aborted' = r.abort
          /\ ret' = [op |-> "next", key |-> NULL,
                     res |-> IF r.abort THEN None ELSE r.res]
          /\ pass' = IF ~pass.clean \/ r.abort THEN pass
                     ELSE IF r.res = None THEN [pass EXCEPT !.done = TRUE]
                     ELSE [pass EXCEPT !.items = Append(@, r.res[1])]
  /\ UNCHANGED <<threadVars, kvVars, lifeVars>>

Advance ==
  /\ it # None /\ ~aborted
  /\ \E ub \in Outcomes(~start(it[1]) /\ ~valid(it[1]), MayAbort) :
       LET r == advance(it[1], ub)
       IN /\ it' = Some(r.it)
          /\ aborted' = r.abort
          /\ ret' = [op |-> "advance", key |-> NULL, res |-> r.res /\ ~r.abort,
                     first |-> start(it[1]), before |-> it[1].iter.pos]
  /\ pass' = NoPass
  /\ UNCHANGED <<threadVars, kvVars, lifeVars>>

Valid ==
  /\ it # None /\ ~aborted
  /\ ret' = [op |-> "valid", key |-> NULL, res |-> valid(it[1])]
  /\ UNCHANGED <<threadVars, kvVars, lifeVars, iterVars>>

Key ==
  /\ it # None /\ ~aborted
  /\ \E ub \in Outcomes(~valid(it[1]), {u \in UBSet : u.value = NULL}) :
       LET r == cursor_key(it[1], ub)
       IN /\ aborted' = r.abort
          /\ ret' = [op |-> "key", key |-> NULL, valid |-> valid(it[1]),
                     res |-> IF r.abort THEN [abort |-> TRUE]
                             ELSE [data |-> r.data]]
  /\ UNCHANGED <<threadVars, kvVars, lifeVars, it, pass>>

Value ==
  /\ it # None /\ ~aborted
  /\ \E ub \in Outcomes(~valid(it[1]), {u \in UBSet : u.key = NULL}) :
       LET r == cursor_value(it[1], ub)
       IN /\ aborted' = r.abort
          /\ ret' = [op |-> "value", key |-> NULL, valid |-> valid(it[1]),
                     res |-> IF r.abort THEN [abort |-> TRUE]
                             ELSE [data |-> r.data]]
  /\ UNCHANGED <<threadVars, kvVars, lifeVars, it, pass>>

\* last consumes the iterator.
Last ==
  /\ it # None /\ ~aborted
  /\ \E ub \in Outcomes(~valid(seek_to_last(it[1])), UBSet) :
       LET r == last(it[1], ub)
       IN /\ aborted' = r.abort
          /\ ret' = [op |-> "last", key |-> NULL, valid |-> r.valid,
                     res |-> IF r.abort THEN [abort |-> TRUE]
                             ELSE [data |-> r.res]]
  /\ it' = None
  /\ native' = ApplyCalls(native, drop_RawIterator)
  /\ pass' = NoPass
  /\ UNCHANGED <<threadVars, kvVars, db, disk, calls, opens, destroys>>

SeekToFirst ==
  /\ it # None /\ ~aborted
  /\ it' = Some(seek_to_first(it[1]))
  /\ pass' = NoPass
  /\ ret' = [op |-> "seek_to_first", key |-> NULL, res |-> Ok(Unit)]
  /\ UNCHANGED <<threadVars, kvVars, lifeVars, aborted>>

SeekToLast ==
  /\ it # None /\ ~aborted
  /\ it' = Some(seek_to_last(it[1]))
  /\ pass' = NoPass
  /\ ret' = [op |-> "seek_to_last", key |-> NULL, res |-> Ok(Unit)]
  /\ UNCHANGED <<threadVars, kvVars, lifeVars, aborted>>

Seek(k) ==
  /\ it # None /\ ~aborted
  /\ it' = Some(seek(it[1], k))
  /\ pass' = NoPass
  /\ ret' = [op |-> "seek", key |-> k, res |-> Ok(Unit)]
  /\ UNCHANGED <<threadVars, kvVars, lifeVars, aborted>>

\* The DatabaseIterator goes out of scope: Drop for RawIterator.
DropIterator ==
  /\ it # None /\ ~aborted
  /\ it' = None
  /\ native' = ApplyCalls(native, drop_RawIterator)
  /\ pass' = NoPass
  /\ ret' = [op |-> "drop_iterator", key |-> NULL, res |-> Unit]
  /\ UNCHANGED <<threadVars, kvVars, db, disk, calls, opens, destroys, aborted>>

----------------------------------------------------------------------------
(* Specifications *)

NoHandles == [k \in Kinds |-> 0]

CreateOptions == [create_if_missing |-> TRUE, error_if_exists |-> FALSE]

\* The state an open of a new database with comparator c (None: open,
\* Some: open_with_comparator) leaves behind.
Opened(c) ==
  /\ db = Some(Database_new("db", CreateOptions, c))
  /\ disk = [exists |-> TRUE, comparator |-> engine_name(c),
             created |-> engine_name(c)]
  /\ native = [NoHandles EXCEPT !["db"] = 1,
                                !["comparator"] = IF c = None THEN 0 ELSE 1,
                                !["box"] = IF c = None THEN 0 ELSE 1]
  /\ calls = <<>>
  /\ opens = 0
  /\ destroys = 0

NoIterator ==
  /\ it = None
  /\ pass = NoPass
  /\ aborted = FALSE

\* The threads that share a reference to the Database.
Threads == {"t1", "t2"}

IdleThread ==
  [pc |-> "idle", op |-> "none", key |-> NULL, value |-> NULL,
   batch |-> <<>>, expect |-> Ok(Unit)]

NoFrame == [error |-> NULL, result |-> NULL]

NoThreads ==
  /\ threads = [t \in Threads |-> IdleThread]
  /\ frames = [t \in Threads |-> NoFrame]

\* Point reads and writes, and snapshots, on a newly created database.
Init ==
  /\ store = EmptyStore
  /\ snap = NoSnapshot
  /\ batch = Writebatch_new
  /\ ret = [op |-> "open", key |-> NULL, res |-> Ok(Unit)]
  /\ lastw = [k \in Keys |-> Never]
  /\ Opened(None)
  /\ NoIterator
  /\ NoThreads

Next ==
  \/ \E key \in Keys, value \in Values : Put(key, value)
  \/ \E key \in Keys : Delete(key)
  \/ \E key \in Keys : Get(key)
  \/ TakeSnapshot
  \/ \E key \in Keys : SnapshotGet(key)
  \/ DropSnapshot

Spec == Init /\ [][Next]_vars

\* A client that builds write batches and applies them to a database with
\* any contents.
InitBatch ==
  /\ store \in Stores
  /\ snap = NoSnapshot
  /\ batch = Writebatch_new
  /\ ret = [op |-> "open", key |-> NULL, res |-> Ok(Unit)]
  /\ lastw = [k \in Keys |-> Never]
  /\ Opened(None)
  /\ NoIterator
  /\ NoThreads

NextBatch ==
  \/ \E key \in Keys, value \in Values : BatchPut(key, value)
  \/ \E key \in Keys : BatchDelete(key)
  \/ BatchClear
  \/ BatchIterate
  \/ Write

SpecBatch == InitBatch /\ [][NextBatch]_vars

\* A client that iterates over a database with any contents, opened with
\* the built-in comparator or a supplied one.
InitIter ==
  /\ store \in Stores
  /\ snap = NoSnapshot
  /\ batch = Writebatch_new
  /\ ret = [op |-> "open", key |-> NULL, res |-> Ok(Unit)]
  /\ lastw = [k \in Keys |-> Never]
  /\ \E c \in {None} \cup {Some(u) : u \in UserComparators} : Opened(c)
  /\ NoIterator
  /\ NoThreads

NextIter ==
  \/ Iter
  \/ \E k \in Keys : From(k)
  \/ \E k \in Keys : To(k)
  \/ IterNext
  \/ Advance
  \/ Valid
  \/ Key
  \/ Value
  \/ Last
  \/ SeekToFirst
  \/ SeekToLast
  \/ \E k \in Keys : Seek(k)
  \/ DropIterator

SpecIter == InitIter /\ [][NextIter]_vars

\* A client that opens the database at one path and drops it, and
\* destroys and repairs the database at that path, repeatedly.
InitLife ==
  /\ store = EmptyStore
  /\ snap = NoSnapshot
  /\ batch = Writebatch_new
  /\ ret = [op |-> "none", key |-> NULL, res |-> Ok(Unit)]
  /\ lastw = [k \in Keys |-> Never]
  /\ db = None
  /\ disk = NoDatabase
  /\ native = NoHandles
  /\ calls = <<>>
  /\ opens = 0
  /\ destroys = 0
  /\ NoIterator
  /\ NoThreads

NextLife ==
  \/ \E options \in OptionsSet : Open(options)
  \/ \E options \in OptionsSet, comparator \in UserComparators :
       OpenWithComparator(options, comparator)
  \/ DropDatabase
  \/ \E options \in OptionsSet : Destroy(options)
  \/ \E options \in OptionsSet : Repair(options)

SpecLife == InitLife /\ [][NextLife]_vars

\* A client that opens and drops the database and, while it is open, reads
\* and deletes, and takes and drops snapshots and iterators.
NextOwn ==
  \/ \E options \in OptionsSet : Open(options)
  \/ \E options \in OptionsSet, comparator \in UserComparators :
       OpenWithComparator(options, comparator)
  \/ DropDatabase
  \/ TakeSnapshot
  \/ DropSnapshot
  \/ Iter
  \/ DropIterator
  \/ \E key \in Keys : Get(key)
  \/ \E key \in Keys : Delete(key)

SpecOwn == InitLife /\ [][NextOwn]_vars

----------------------------------------------------------------------------
(* Claims about put, delete and get *)

\* What a read of a key must return, given the most recent write to it.
Expected(w) == IF w[1] = "put" THEN Some(w[2]) ELSE None

\* C1: after any sequence of successful put and delete calls, a successful
\* get(k) returns Some(v) for the v of the most recent put(k, v) that no
\* delete(k) followed, and None when k was never put or was last deleted.
C1_GetReturnsMostRecentWrite ==
  /\ \A key \in Keys, options \in ReadOptionsSet :
       get(store, snap, options, key, NULL) = Ok(Expected(lastw[key]))
  /\ (ret.op = "get" /\ ret.res.ok) => ret.res.val = Expected(lastw[ret.key])

\* A get that returned a value while another key's last write is a delete.
C1_Witness ==
  /\ ret.op = "get" /\ ret.res.ok /\ ret.res.val = Some(NVals)
  /\ \E k \in Keys : lastw[k] = Deleted

\* C2: a read bound to a snapshot returns what the database held when the
\* snapshot was created, whatever was written since.
C2_SnapshotReadsAreFrozen ==
  (ret.op = "snapshot_get" /\ ret.res.ok)
    => ret.res.val = Bytes_from_raw(snap.view[ret.key])

----------------------------------------------------------------------------
(* Claims about write batches *)

DefaultWriteOptions == [sync |-> FALSE]

\* The batch's operations applied one by one with Database::put and
\* Database::delete, in insertion order.
RECURSIVE ApplyOneByOne(_, _)
ApplyOneByOne(s, b) ==
  IF b = <<>> THEN s
  ELSE LET o == Head(b)
           s1 == IF o.tag = "put"
                 THEN put(s, DefaultWriteOptions, o.key, o.value, NULL).store
                 ELSE delete(s, DefaultWriteOptions, o.key, NULL).store
       IN ApplyOneByOne(s1, Tail(b))

\* C3: a write of a batch is all-or-nothing: when it returns Err the
\* contents are those before the call, and when it returns Ok every
\* operation of the batch (that no later one of the batch overrides) is
\* visible.
C3_WriteAllOrNothing ==
  [][ret'.op = "write" =>
       IF ret'.res.ok
       THEN \A i \in 1..Len(batch) :
              LastOpOn(batch, batch[i].key) = i
                => store'[batch[i].key] = batch[i].value
       ELSE store' = store]_vars

\* A failed write of a full batch.
C3_Witness == ret.op = "write" /\ ~ret.res.ok /\ Len(batch) = MaxBatch

\* C4: a successful write leaves the database as applying the batch's
\* operations one by one, in insertion order, with put and delete would.
C4_WriteEqualsOneByOne ==
  [][(ret'.op = "write" /\ ret'.res.ok)
       => store' = ApplyOneByOne(store, batch)]_vars

\* A successful write of a batch whose second operation deletes the key its
\* first one put.
C4_Witness ==
  /\ ret.op = "write" /\ ret.res.ok /\ Len(batch) >= 2
  /\ batch[1].tag = "put" /\ batch[2].tag = "delete"
  /\ batch[1].key = batch[2].key
  /\ store[batch[1].key] = NULL

----------------------------------------------------------------------------
(* Claims about iteration *)

\* The keys of the pass, in the order next() returned them.
PassKeys == [n \in 1..Len(pass.items) |-> pass.items[n][1]]

\* C5: an iterator configured with from(a) and to(b), a <= b, yields
\* through next() only keys k with a <= k < b.
C5_NextStaysWithinBounds ==
  (it # None /\ pass.clean /\ from_key(it[1]) # None /\ to_key(it[1]) # None
     /\ engine_compare(db[1].comparator, from_key(it[1])[1], to_key(it[1])[1]) <= 0)
    => \A n \in 1..Len(PassKeys) :
         /\ engine_compare(db[1].comparator, from_key(it[1])[1], PassKeys[n]) <= 0
         /\ engine_compare(db[1].comparator, PassKeys[n], to_key(it[1])[1]) < 0

InvalidCursorState == [error |-> "InvalidCursorState"]

\* C6: key(), value() and last() on a cursor that is not valid return no
\* data: they fail with an InvalidCursorState error.
C6_InvalidCursorReadFails ==
  (ret.op \in {"key", "value", "last"} /\ ~ret.valid)
    => ret.res = InvalidCursorState

\* C7: a full forward iteration (next() until None) over a newly created
\* unbounded iterator yields exactly the pairs the database holds, each key
\* once with its value, and no deleted key.
C7_FullIterationYieldsContents ==
  (it # None /\ pass.clean /\ pass.done
     /\ from_key(it[1]) = None /\ to_key(it[1]) = None)
    => /\ {pass.items[n] : n \in 1..Len(pass.items)}
            = {<<k, store[k]>> : k \in Present(store)}
       /\ Len(pass.items) = Cardinality(Present(store))

\* A finished pass over a database that holds every key.
C7_Witness ==
  /\ it # None /\ pass.clean /\ pass.done
  /\ from_key(it[1]) = None /\ to_key(it[1]) = None
  /\ Len(pass.items) = NKeys

\* C8: the keys a forward iteration produces are non-decreasing under the
\* comparator the database was opened with, and in ascending byte order
\* under the default one.
C8_IterationFollowsComparator ==
  (db # None /\ pass.clean)
    => \A m, n \in 1..Len(PassKeys) :
         m < n =>
           IF db[1].comparator = None
           THEN PassKeys[m] < PassKeys[n]
           ELSE Comparator_compare(db[1].comparator[1],
                                   PassKeys[m], PassKeys[n]) # "Greater"

\* A finished pass of at least two keys under the reverse comparator.
C8_Witness ==
  /\ db # None /\ db[1].comparator = Some("desc")
  /\ pass.clean /\ pass.done /\ Len(pass.items) >= 2

----------------------------------------------------------------------------
(* Claims about opening and dropping *)

\* C9: after a failed open or open_with_comparator every native handle the
\* call created has been destroyed: the options and, for
\* open_with_comparator, the native comparator and the boxed comparator.
C9_FailedOpenLeavesNoHandle ==
  (ret.op \in {"open", "open_with_comparator"} /\ ~ret.res.ok)
    => \A k \in Kinds : Made(calls, k) = Freed(calls, k)

\* C10: the destroy callback of the comparator of a successfully opened
\* Database runs exactly once, when the Database is dropped, after
\* leveldb_close, and never while the database is open.
C10_ComparatorDestroyedOnceAfterClose ==
  /\ (db # None /\ db[1].comparator # None) => destroys = 0
  /\ (ret.op = "drop" /\ disk.comparator # BytewiseName)
       => /\ destroys = 1
          /\ Cardinality(CallsOf(calls, "destructor")) = 1
          /\ Cardinality(CallsOf(calls, "leveldb_close")) = 1
          /\ \A i \in CallsOf(calls, "leveldb_comparator_destroy")
                       \cup CallsOf(calls, "destructor") :
                \A j \in CallsOf(calls, "leveldb_close") : j < i

\* A Database opened with the reverse comparator has been dropped.
C10_Witness ==
  ret.op = "drop" /\ disk.comparator = "desc" /\ destroys = 1

----------------------------------------------------------------------------
(* Claims about the lifetime of a Database and of what borrows from it *)

Children == {"snapshot", "iterator"}

\* The calls that are issued on the engine instance of the Database.
EngineOps == {"put", "delete", "get", "write", "iter", "snapshot", "compact"}

\* C11: every Snapshot and DatabaseIterator is released exactly once, and
\* before the engine instance of its Database is closed: a step releases a
\* child only while the Database is open and the child is live, and the
\* Database is closed only when no child is live.
C11_ChildrenReleasedBeforeClose ==
  [][\A k \in Children :
       /\ native'[k] < native[k]
            => /\ db # None /\ native["db"] = 1
               /\ native[k] = 1 /\ native'[k] = 0
       /\ native'["db"] < native["db"] => native[k] = 0
       /\ native'[k] \in {0, 1}
       /\ native'["snapshot"] = (IF snap'.held THEN 1 ELSE 0)
       /\ native'["iterator"] = (IF it' # None THEN 1 ELSE 0)]_vars

\* A snapshot has been released while the Database is open and an iterator
\* created from it is still alive.
C11_Witness ==
  /\ ret.op = "drop_snapshot" /\ native["snapshot"] = 0
  /\ db # None /\ it # None /\ opens >= 2

\* C12: a successfully opened Database closes its engine instance exactly
\* once, when it is dropped, and no call is issued on the engine instance
\* after that.
C12_ClosedOnceAndNotUsedAfter ==
  [][/\ ret'.op \in EngineOps => (db # None /\ native["db"] = 1)
     /\ ret'.op = "drop"
          => /\ native["db"] = 1 /\ native'["db"] = 0
             /\ Cardinality(CallsOf(calls', "leveldb_close")) = 1
     /\ native'["db"] < native["db"] => ret'.op = "drop"
     /\ native'["db"] = (IF db' # None THEN 1 ELSE 0)]_vars

\* The Database has been opened, used, dropped, opened again and dropped.
C12_Witness ==
  /\ ret.op = "drop" /\ native["db"] = 0 /\ opens >= 2
  /\ \E k \in Keys : lastw[k] = Deleted

----------------------------------------------------------------------------
(* Claims about the cursor *)

\* C13: once next() has returned None, or advance() false, every further
\* next() or advance() returns None or false as well, until a seek.
C13_InvalidIsTerminal ==
  [][(/\ ~aborted
      /\ \/ ret.op = "next" /\ ret.res = None
         \/ ret.op = "advance" /\ ret.res = FALSE
      /\ ret'.op \in {"next", "advance"})
       => /\ ~aborted'
          /\ IF ret'.op = "next" THEN ret'.res = None ELSE ret'.res = FALSE]_vars

\* The keys a newly created cursor i over the database may be positioned on
\* by its first advance: those at or after its from bound, all without one.
Candidates(i) ==
  {k \in Present(store) :
     from_key(i) = None
       \/ engine_compare(db[1].comparator, k, from_key(i)[1]) >= 0}

\* C14: the first advance() (or next()) on a newly created cursor positions
\* it on the first key at or after from, or on the first key when no from
\* is set, and returns true exactly when there is such a key.
C14_FirstAdvanceLandsOnFirstKey ==
  [][(it # None /\ pass.clean /\ start(it[1])
        /\ ret'.op \in {"advance", "next"})
       => LET C == Candidates(it[1])
              pos == it'[1].iter.pos
          IN /\ ~aborted'
             /\ C = {} => pos = NULL
             /\ C # {} => /\ pos \in C
                          /\ \A j \in C :
                               engine_compare(db[1].comparator, pos, j) <= 0
             /\ IF ret'.op = "advance" THEN ret'.res = (C # {})
                ELSE ret'.res = IF C = {} THEN None
                                ELSE Some(<<pos, store[pos]>>)]_vars

\* The first next() of a cursor with from set to the last key, over a
\* database that also holds the first key, returned the last key.
C14_Witness ==
  /\ ret.op = "next" /\ it # None /\ pass.clean /\ Len(pass.items) = 1
  /\ db[1].comparator = None
  /\ from_key(it[1]) = Some(NKeys) /\ pass.items[1][1] = NKeys
  /\ store[1] # NULL

\* The keys of the database within the upper bound of cursor i: those at or
\* before its to bound, all without one.
InRange(i) ==
  {k \in Present(store) :
     to_key(i) = None
       \/ engine_compare(db[1].comparator, k, to_key(i)[1]) <= 0}

\* C15: seek_to_last leaves the cursor on the last key within its to bound
\* (the last key of all without one), never on a key after to, and last()
\* returns that element.
C15_SeekToLastStaysInRange ==
  [][(it # None /\ ret'.op \in {"seek_to_last", "last"})
       => LET R == InRange(it[1])
              IsLast(k) ==
                /\ k \in R
                /\ \A j \in R : engine_compare(db[1].comparator, k, j) >= 0
          IN IF ret'.op = "seek_to_last"
             THEN /\ R = {} => it'[1].iter.pos = NULL
                  /\ R # {} => IsLast(it'[1].iter.pos)
             ELSE R # {} =>
                    \E k \in R :
                      /\ IsLast(k)
                      /\ ret'.res = [data |-> Some(<<k, store[k]>>)]]_vars

----------------------------------------------------------------------------
(* Claims about errors *)

\* The states the database at the path can be in.
ComparatorNames ==
  {BytewiseName} \cup {Comparator_name(u) : u \in UserComparators}

Disks ==
  [exists : BOOLEAN, comparator : ComparatorNames, created : ComparatorNames]

\* A result is Err with the engine's message when the engine set its error
\* out-parameter, and Ok when it left it null.
Carries(res, error) ==
  /\ res.ok <=> error = NULL
  /\ error # NULL => res.err = Some([message |-> error])

\* C16: open, open_with_comparator, put, delete, get, write, destroy and
\* repair return Err carrying the engine's message exactly when the engine
\* set its error out-parameter, and Ok otherwise.  The calls on the database
\* are made on the contents and the batch of the state; the calls on a path
\* depend on no variable, and are evaluated in the states with a new batch.
C16_ErrIffEngineError ==
  /\ \A error \in EngineErrors :
       /\ \A options \in WriteOptionsSet :
            /\ \A key \in Keys, value \in Values :
                 Carries(put(store, options, key, value, error).res, error)
            /\ \A key \in Keys :
                 Carries(delete(store, options, key, error).res, error)
            /\ Carries(write(store, options, batch, error).res, error)
       /\ \A options \in ReadOptionsSet, key \in Keys :
            Carries(get(store, snap, options, key, error), error)
  /\ batch = Writebatch_new =>
     \A dsk \in Disks, options \in OptionsSet, ioerror \in EngineErrors :
       /\ Carries(open(options, dsk, ioerror).res,
                  leveldb_open(c_options(options, None), dsk, ioerror).error)
       /\ \A comparator \in UserComparators :
            Carries(open_with_comparator(options, comparator, dsk, ioerror).res,
                    leveldb_open(c_options(options, Some(comparator)),
                                 dsk, ioerror).error)
       /\ \A locked \in BOOLEAN :
            Carries(destroy(options, dsk, locked, ioerror).res,
                    leveldb_destroy_db(c_options(options, None),
                                       dsk, locked, ioerror).error)
       /\ Carries(repair(options, dsk, ioerror).res,
                  leveldb_repair_db(c_options(options, None),
                                    dsk, ioerror).error)
  /\ ret.op = "write" => ret.res \in {Ok(Unit), Err([message |-> SomeError])}

\* A write of a full batch returned the engine's error.
C16_Witness ==
  /\ ret.op = "write" /\ ret.res = Err([message |-> SomeError])
  /\ Len(batch) = MaxBatch /\ \E k \in Keys : store[k] # NULL

open_with(c, options, dsk, ioerror) ==
  IF c = None THEN open(options, dsk, ioerror)
  ELSE open_with_comparator(options, c[1], dsk, ioerror)

\* C18: opening an existing database with a comparator whose name differs
\* from the one it was created with (the built-in one included) fails every
\* time and leaves the database as it is; opening it with a comparator of
\* that name succeeds (when the options do not demand a new database and
\* the engine meets no I/O error).
C18_ComparatorNameMismatchFails ==
  (db = None /\ disk.exists)
    => \A c \in {None} \cup {Some(u) : u \in UserComparators},
          options \in OptionsSet, ioerror \in EngineErrors :
         LET r == open_with(c, options, disk, ioerror)
         IN /\ engine_name(c) # disk.created
                 => ~r.res.ok /\ r.disk = disk
            /\ (engine_name(c) = disk.created /\ ioerror = NULL
                  /\ ~options.error_if_exists)
                 => r.res.ok /\ r.disk = disk

----------------------------------------------------------------------------
(* Claims about the batch as a value *)

\* The call a visitor receives for a recorded operation.
VisitOf(o) ==
  IF o.tag = "put" THEN [call |-> "put", key |-> o.key, value |-> o.value]
  ELSE [call |-> "deleted", key |-> o.key]

\* C19: iterate calls the visitor once per recorded operation, in insertion
\* order, put(key, value) for a put and deleted(key) for a delete, returns
\* that visitor, and leaves the batch as it was.
C19_IterateReplaysInOrder ==
  [][ret'.op = "iterate"
       => /\ batch' = batch
          /\ Len(ret'.res) = Len(ret'.arg) + Len(batch)
          /\ SubSeq(ret'.res, 1, Len(ret'.arg)) = ret'.arg
          /\ \A i \in 1..Len(batch) :
               ret'.res[Len(ret'.arg) + i] = VisitOf(batch[i])]_vars

\* A visitor that had seen a full batch was passed to iterate again, and the
\* batch holds a put and then a delete.
C19_Witness ==
  /\ ret.op = "iterate" /\ Len(batch) = MaxBatch /\ Len(ret.arg) = MaxBatch
  /\ batch[1].tag = "put" /\ batch[MaxBatch].tag = "delete"
  /\ Len(ret.res) = 2 * MaxBatch

\* C20: write does not modify or consume the batch: after a write, whether
\* it succeeded or not, the batch holds the same operations, and applied
\* again to this database, or to another one (here: one holding what this
\* one held before the write), it has the effect of all of them.
C20_WriteLeavesBatch ==
  [][ret'.op = "write"
       => /\ batch' = batch
          /\ \A s \in {store, store'} :
               write(s, DefaultWriteOptions, batch', NULL).store
                 = ApplyOneByOne(s, batch)]_vars

\* A full batch that deletes and then puts has been written with success.
C20_Witness ==
  /\ ret.op = "write" /\ ret.res.ok /\ Len(batch) = MaxBatch
  /\ batch[1].tag = "delete" /\ batch[MaxBatch].tag = "put"
  /\ store[batch[MaxBatch].key] = batch[MaxBatch].value

\* C21: after clear the batch is empty whatever it held: iterate calls no
\* callback, write changes nothing in the database, and an operation
\* recorded after the clear is the only one replayed and applied.
C21_ClearEmptiesBatch ==
  [][ret'.op = "batch_clear"
       => /\ batch' = Writebatch_new
          /\ iterate(batch', NewVisitor).res = NewVisitor
          /\ \A options \in WriteOptionsSet :
               write(store', options, batch', NULL).store = store'
          /\ \A key \in Keys, value \in Values :
               LET b1 == Writebatch_put(batch', key, value)
                   b2 == Writebatch_delete(batch', key)
               IN /\ iterate(b1, NewVisitor).res = <<VisitOf(PutOp(key, value))>>
                  /\ iterate(b2, NewVisitor).res = <<VisitOf(DeleteOp(key))>>
                  /\ write(store', DefaultWriteOptions, b1, NULL).store
                       = [store' EXCEPT ![key] = value]
                  /\ write(store', DefaultWriteOptions, b2, NULL).store
                       = [store' EXCEPT ![key] = NULL]]_vars

\* A full batch has been cleared, over a database that holds a key.
C21_Witness ==
  /\ ret.op = "batch_clear" /\ ret.cleared = MaxBatch /\ batch = Writebatch_new
  /\ \E k \in Keys : store[k] # NULL

----------------------------------------------------------------------------
(* Threads sharing one Database (mod.rs: unsafe impl Sync, Send) *)

\* The batches a thread builds for itself: a Writebatch holds a raw pointer,
\* so it is neither Send nor Sync and no two threads share one.
ThreadBatches ==
  {b \in {<<PutOp(k, v), DeleteOp(j)>> :
             k \in Keys, v \in Values, j \in Keys} : b[1].key # b[2].key}

frame_Shared(t) == CHOOSE s \in Threads : TRUE

\* `let mut error = ptr::null_mut()` (and `result`, `length`): locals of the
\* call, in the stack frame of the thread that makes it.
frame(t) == t

\* What the call returns once the engine has written its frame.
ThreadResult(t) ==
  LET f == frames[frame(t)]
  IN IF f.error # NULL THEN Err(Error_new_from_i8(f.error))
     ELSE IF threads[t].op = "get" THEN Ok(Bytes_from_raw(f.result))
     ELSE Ok(Unit)

\* A thread enters put, delete, get or write: its error slot starts null.
ThreadCall(t, op, key, value, b) ==
  /\ db # None
  /\ threads[t].pc = "idle"
  /\ threads' = [threads EXCEPT ![t] =
                   [pc |-> "called", op |-> op,
                    key |-> IF op = "write" THEN NULL ELSE key,
                    value |-> IF op = "put" THEN value ELSE NULL,
                    batch |-> IF op = "write" THEN b ELSE <<>>,
                    expect |-> Ok(Unit)]]
  /\ frames' = [frames EXCEPT ![frame(t)] = NoFrame]
  /\ ret' = [op |-> "thread_call", key |-> NULL, res |-> Ok(Unit)]
  /\ UNCHANGED <<kvVars, lifeVars, iterVars>>

\* The engine call of the thread's operation: the engine serializes the calls
\* on one handle, so each takes effect at one instant.  expect records what
\* the same call returns when it is made alone on the contents of that
\* instant.
ThreadEngine(t) ==
  /\ threads[t].pc = "called"
  /\ \E error \in EngineErrors :
       LET c == threads[t]
           wo == DefaultWriteOptions
           ro == [verify_checksums |-> FALSE, fill_cache |-> TRUE,
                  snapshot |-> None]
           s == CASE c.op = "put" ->
                       leveldb_put(store, c_writeoptions(wo), c.key, c.value,
                                   error)
                  [] c.op = "delete" ->
                       leveldb_delete(store, c_writeoptions(wo), c.key, error)
                  [] c.op = "write" ->
                       leveldb_write(store, c_writeoptions(wo), c.batch, error)
                  [] OTHER -> store
           result == IF c.op = "get"
                     THEN leveldb_get(store, snap, c_readoptions(ro), c.key,
                                      error)
                     ELSE NULL
           alone == CASE c.op = "put" ->
                           put(store, wo, c.key, c.value, error).res
                      [] c.op = "delete" -> delete(store, wo, c.key, error).res
                      [] c.op = "write" ->
                           write(store, wo, c.batch, error).res
                      [] OTHER -> get(store, snap, ro, c.key, error)
       IN /\ store' = s
          /\ frames' = [frames EXCEPT ![frame(t)] =
                          [error |-> error, result |-> result]]
          /\ threads' = [threads EXCEPT ![t] =
                           [c EXCEPT !.pc = "returning", !.expect = alone]]
  /\ ret' = [op |-> "thread_engine", key |-> NULL, res |-> Ok(Unit)]
  /\ UNCHANGED <<snap, batch, lastw, lifeVars, iterVars>>

\* The call destroys its native options and returns by its error slot.
ThreadReturn(t) ==
  /\ threads[t].pc = "returning"
  /\ ret' = [op |-> "thread_return", key |-> threads[t].key,
             res |-> ThreadResult(t)]
  /\ threads' = [threads EXCEPT ![t] = IdleThread]
  /\ frames' = [frames EXCEPT ![frame(t)] = NoFrame]
  /\ UNCHANGED <<kvVars, lifeVars, iterVars>>

NextThreads ==
  \/ \E t \in Threads, key \in Keys, value \in Values :
       ThreadCall(t, "put", key, value, <<>>)
  \/ \E t \in Threads, key \in Keys : ThreadCall(t, "delete", key, NULL, <<>>)
  \/ \E t \in Threads, key \in Keys : ThreadCall(t, "get", key, NULL, <<>>)
  \/ \E t \in Threads, b \in ThreadBatches :
       ThreadCall(t, "write", NULL, NULL, b)
  \/ \E t \in Threads : ThreadEngine(t)
  \/ \E t \in Threads : ThreadReturn(t)

\* Threads that put, delete, get and write through one shared Database.
SpecThreads == Init /\ [][NextThreads]_vars

\* The same call made alone (by one thread, nothing else in flight) on the
\* contents s, with the engine reporting error.
Alone(c, s, error) ==
  LET wo == DefaultWriteOptions
      ro == [verify_checksums |-> FALSE, fill_cache |-> TRUE,
             snapshot |-> None]
  IN CASE c.op = "put" -> put(s, wo, c.key, c.value, error)
       [] c.op = "delete" -> delete(s, wo, c.key, error)
       [] c.op = "write" ->
            [store |-> write(s, wo, c.batch, error).store,
             res |-> write(s, wo, c.batch, error).res]
       [] OTHER -> [store |-> s, res |-> get(s, snap, ro, c.key, error)]

\* C22: calls of put, delete, get and write made by several threads on one
\* Database are linearizable.  Every call takes effect at its engine call:
\* there the contents change exactly as when the call is made alone, and the
\* call later returns what it returns when made alone at that instant, whatever
\* the other threads did in between; a write to one key leaves every other
\* key as it was, so writes to distinct keys are all visible; and no step of
\* one thread changes the error or result slot of another thread's call.
C22_Linearizable ==
  [][/\ \A t \in Threads :
          threads[t].pc = "returning" => ThreadResult(t) = threads[t].expect
     /\ \A t \in Threads :
          (threads[t].pc = "called" /\ threads'[t].pc = "returning")
            => /\ \E error \in EngineErrors :
                    /\ store' = Alone(threads[t], store, error).store
                    /\ threads'[t].expect
                         = Alone(threads[t], store, error).res
               /\ (threads[t].op = "put" /\ threads'[t].expect.ok)
                    => /\ store'[threads[t].key] = threads[t].value
                       /\ \A j \in Keys \ {threads[t].key} :
                            store'[j] = store[j]
     /\ \A t \in Threads :
          (threads[t].pc = "returning" /\ threads'[t].pc = "idle")
            => ret'.res = threads[t].expect
     /\ \A t \in Threads, u \in Threads :
          (u # t /\ threads'[t] # threads[t])
            => /\ frames'[u] = frames[u]
               /\ threads'[u] = threads[u]]_vars

\* Two threads are inside put at once, on distinct keys, the engine has
\* accepted both and both values are in the database.
C22_Witness ==
  \E t \in Threads, u \in Threads :
    /\ t # u
    /\ threads[t].pc = "returning" /\ threads[u].pc = "returning"
    /\ threads[t].op = "put" /\ threads[u].op = "put"
    /\ threads[t].key # threads[u].key
    /\ threads[t].expect.ok /\ threads[u].expect.ok
    /\ store[threads[t].key] = threads[t].value
    /\ store[threads[u].key] = threads[u].value

----------------------------------------------------------------------------
(* Native configuration handles *)

\* C23: every native configuration handle an operation creates is destroyed
\* exactly once before the operation returns, whether it succeeds or fails:
\* the engine calls of the last operation create as many options handles as
\* they destroy, and no options handle is live between operations.
C23_ConfigHandlesDestroyedOnce ==
  /\ Made(calls, "options") = Freed(calls, "options")
  /\ native["options"] = 0

----------------------------------------------------------------------------
(* Compaction (mod.rs, compaction.rs) *)

\* The byte slices passed to compact: the empty slice, and each key.
Slices == {<<>>} \cup {<<k>> : k \in Keys}

\* The address of the bytes of a non-empty slice.
AddressOf(slice) == 1 + slice[1]

\* The pointer of an empty slice: aligned, dangling and never null.
NonNull_dangling == 1

\* <[u8]>::as_ptr: a slice's pointer is never null, also when it is empty.
as_ptr(slice) == IF Len(slice) = 0 THEN NonNull_dangling ELSE AddressOf(slice)

\* The engine reading len bytes at ptr.
Slice(ptr, len) == IF len = 0 THEN <<>> ELSE <<ptr - 1>>

\* leveldb_compact_range: a NULL key pointer makes that end of the range
\* unbounded, any other pointer is read as a key of the given length.  The
\* contents stay as they are.
leveldb_compact_range(s, start_key, start_key_len, limit_key, limit_key_len) ==
  [store |-> s,
   range |-> [begin |-> IF start_key = NULL THEN None
                        ELSE Some(Slice(start_key, start_key_len)),
              end |-> IF limit_key = NULL THEN None
                      ELSE Some(Slice(limit_key, limit_key_len))]]

\* Database::compact
compact(s, start_, limit) ==
  leveldb_compact_range(s, as_ptr(start_), Len(start_), as_ptr(limit),
                        Len(limit))

\* Compaction::compact for Database: the same call.
Compaction_compact(s, start_, limit) ==
  leveldb_compact_range(s, as_ptr(start_), Len(start_), as_ptr(limit),
                        Len(limit))

\* The range the engine compacts when both ends are unbounded.
EntireKeyspace == [begin |-> None, end |-> None]

Compact(start_, limit) ==
  /\ db # None
  /\ \E r \in {compact(store, start_, limit),
               Compaction_compact(store, start_, limit)} :
       /\ store' = r.store
       /\ ret' = [op |-> "compact", key |-> NULL, res |-> Ok(Unit),
                  start |-> start_, limit |-> limit, range |-> r.range]
  /\ UNCHANGED <<threadVars, lifeVars, iterVars, snap, batch, lastw>>

NextCompact ==
  \/ Next
  \/ \E start_ \in Slices, limit \in Slices : Compact(start_, limit)

\* Point reads and writes, snapshots and compaction.
SpecCompact == Init /\ [][NextCompact]_vars

\* C24: compact with empty start and limit requests compaction of the entire
\* keyspace (an unbounded range is passed to the engine), and compact never
\* changes the result of any get or iteration: the contents, the snapshot and
\* the comparator are what they were.
C24_CompactEmptyBoundsIsEntireKeyspace ==
  [][ret'.op = "compact"
       => /\ (ret'.start = <<>> /\ ret'.limit = <<>>)
               => ret'.range = EntireKeyspace
          /\ store' = store /\ snap' = snap /\ db' = db
          /\ \A key \in Keys, options \in ReadOptionsSet :
               get(store', snap', options, key, NULL)
                 = get(store, snap, options, key, NULL)]_vars

----------------------------------------------------------------------------
(* One forward pass: a client that calls next until it returns None *)

\* from and to are set on the new iterator, before the first next.
PassFrom(k) == it # None /\ start(it[1]) /\ From(k)
PassTo(k) == it # None /\ start(it[1]) /\ To(k)

\* next, called until it has returned None.
PassNext == ~pass.done /\ IterNext

\* The iterator is dropped once the pass is over.
PassDrop == pass.done /\ DropIterator

\* A database with any contents, opened with the built-in comparator or a
\* supplied one; no call has returned yet.
InitPass ==
  /\ store \in Stores
  /\ snap = NoSnapshot
  /\ batch = Writebatch_new
  /\ ret = [op |-> "none", key |-> NULL, res |-> Unit]
  /\ lastw = [k \in Keys |-> Never]
  /\ \E c \in {None} \cup {Some(u) : u \in UserComparators} : Opened(c)
  /\ NoIterator
  /\ NoThreads

NextPass ==
  \/ Iter
  \/ \E k \in Keys : PassFrom(k)
  \/ \E k \in Keys : PassTo(k)
  \/ PassNext
  \/ PassDrop

\* The client keeps calling next while the iterator has not returned None.
SpecPass == InitPass /\ [][NextPass]_vars /\ WF_vars(PassNext)

\* C25: iteration is finite.  A client that keeps calling next on an
\* iterator, with or without bounds, gets None after finitely many calls (at
\* most one Some per key the database holds), and no key is yielded twice in
\* the pass.
C25_IterationIsFinite ==
  /\ [](it # None
          => /\ Len(pass.items) <= Cardinality(Present(it[1].iter.view))
             /\ \A m, n \in 1..Len(pass.items) :
                  m # n => pass.items[m] # pass.items[n])
  /\ (it # None) ~> pass.done

\* A pass over a database with every key, with both bounds set, has yielded
\* more than one key and has ended with None.
C25_Witness ==
  /\ it # None /\ pass.done
  /\ it[1].from # None /\ it[1].to # None
  /\ Len(pass.items) = NKeys
  /\ ret.op = "next" /\ ret.res = None

----------------------------------------------------------------------------
(* Claims about the start flag *)

\* The cursor operations that only move or read the engine's cursor.
CursorOps ==
  {"seek", "seek_to_first", "seek_to_last", "key", "value", "valid"}

\* The key that follows k in the view of the engine cursor raw, in the order
\* of its comparator: NULL when k is the last one.
Successor(raw, k) ==
  IF \A j \in Present(raw.view) : engine_compare(raw.cmp, j, k) <= 0
  THEN NULL
  ELSE CHOOSE n \in Present(raw.view) :
         /\ engine_compare(raw.cmp, n, k) > 0
         /\ \A j \in Present(raw.view) :
              engine_compare(raw.cmp, j, k) > 0
                => engine_compare(raw.cmp, n, j) <= 0

\* C26: the start flag is true from creation until the first advance and
\* false ever after; seek, seek_to_first, seek_to_last, key, value and valid
\* change neither the start flag nor the from and to bounds; so the first
\* advance seeks to the from bound, when one is set, wherever an earlier seek
\* left the cursor; and every advance after the first moves the engine cursor
\* forward by one key.
C26_StartFlagFrame ==
  [][/\ (it = None /\ it' # None) => start(it'[1])
     /\ (it # None /\ it' # None)
          => /\ start(it'[1]) => start(it[1])
             /\ ret'.op \in {"advance", "next"} => ~start(it'[1])
             /\ ret'.op \notin {"advance", "next"}
                  => start(it'[1]) = start(it[1])
             /\ ret'.op \in CursorOps
                  => /\ start(it'[1]) = start(it[1])
                     /\ from_key(it'[1]) = from_key(it[1])
                     /\ to_key(it'[1]) = to_key(it[1])
             /\ (ret'.op = "advance" /\ start(it[1]))
                  => /\ from_key(it[1]) # None
                          => it'[1].iter
                               = leveldb_iter_seek(it[1].iter,
                                                   from_key(it[1])[1])
                     /\ from_key(it[1]) = None => it'[1].iter = it[1].iter
             /\ (ret'.op = "advance" /\ ~start(it[1]) /\ valid(it[1]))
                  => /\ it'[1].iter.pos
                          = Successor(it[1].iter, it[1].iter.pos)
                     /\ it'[1].iter.view = it[1].iter.view
                     /\ ~aborted'
             /\ (ret'.op = "advance" /\ ~start(it[1]) /\ ~valid(it[1]))
                  => aborted' \/ it'[1].iter = it[1].iter]_vars

\* The first advance of a cursor with a from bound, which an earlier seek
\* had left on another key than the first one: the cursor is on the from key.
C26_Witness ==
  /\ it # None /\ ret.op = "advance" /\ ret.first /\ ~start(it[1])
  /\ from_key(it[1]) # None
  /\ ret.before # NULL
  /\ ret.before # FirstOf(it[1].iter.cmp, Present(it[1].iter.view))
  /\ ret.before # it[1].iter.pos
  /\ it[1].iter.pos = from_key(it[1])[1]

====
